---- MODULE Spec2Model ----
(***************************************************************************)
(* The prediction-market ledger of contract/src/lib.rs as a state machine. *)
(*                                                                         *)
(* One action per public operation of PredictionMarket.  A Rust Option is  *)
(* a sequence of length 0 (None) or 1 (Some(x)); a Vec is a sequence; an   *)
(* index into a Vec is 0-based as in the source and the sequence is read   *)
(* at index + 1.  Balance keeps a fixed width of BalanceBits bits: an      *)
(* addition or multiplication that leaves the range either wraps (a build  *)
(* without overflow checks) or panics (a build with them); the build is    *)
(* chosen once, in Init.  The text fields of a market (question,           *)
(* resolution_criteria, resolution_source) are never read by any decision  *)
(* of the contract and are left out of the market record.                  *)
(*                                                                         *)
(* Every operation is an operator from the current ledger and the call's   *)
(* arguments to an outcome: the value returned to the caller and the       *)
(* ledger the call leaves behind, written in the order of the source's     *)
(* checks and writes.  The action of the operation installs that ledger.   *)
(* staked, stakes, paid, claimed and nbets are history variables: they     *)
(* record what the calls so far have done and are read by no operation.    *)
(***************************************************************************)
EXTENDS Integers, Sequences, FiniteSets, TLC

\* ------------------------------------------------------------------------
\* Bounds of the model
\* ------------------------------------------------------------------------
BalanceBits == 9
MaxMarkets == 1
MaxBets == 4
MaxBlock == 2

\* ------------------------------------------------------------------------
\* Types
\* ------------------------------------------------------------------------
MAX_OPTIONS == 10

BalanceModulus == 2 ^ BalanceBits

Accounts == {"alice", "bob", "charlie"}

AgentIds == {"bob"}

OracleIds == {"bob"}

OptionCounts == {1, 2, 11}

OptionIndexes == 0 .. 2

\* the lengths a caller can give the options list, valid or not
AnyOptionCounts == 0 .. (MAX_OPTIONS + 2)

Amounts == {1, 171}

Deadlines == {1}

Blocks == 0 .. MaxBlock

MarketIds == 0 .. MaxMarkets

None == << >>

Some(x) == << x >>

VARIABLES config, next_market_id, markets, positions, pending_resolutions,
          overflow_checks, staked, stakes, paid, claimed, nbets

vars == << config, next_market_id, markets, positions, pending_resolutions,
           overflow_checks, staked, stakes, paid, claimed, nbets >>

\* the PredictionMarket storage struct as one value
Ledger ==
    [config |-> config, next_market_id |-> next_market_id, markets |-> markets,
     positions |-> positions, pending_resolutions |-> pending_resolutions]

\* ------------------------------------------------------------------------
\* Helpers on sequences and bounded integers
\* ------------------------------------------------------------------------
RECURSIVE SeqSum(_)
SeqSum(s) == IF s = << >> THEN 0 ELSE Head(s) + SeqSum(Tail(s))

Zeros(n) == [i \in 1 .. n |-> 0]

RemoveAt(s, i) == SubSeq(s, 1, i - 1) \o SubSeq(s, i + 1, Len(s))

Overflows(x) == x >= BalanceModulus

Wrap(x) == x % BalanceModulus

\* Market::total_pool: the sum of the slots, in Balance arithmetic
total_pool(market) == Wrap(SeqSum(market.shares_per_option))

\* self.markets.iter().find(|(id, _)| *id == market_id): index of the first
\* entry with that id, 0 when there is none
get_market(market_id) ==
    IF \E i \in 1 .. Len(markets) : markets[i].id = market_id
    THEN CHOOSE i \in 1 .. Len(markets) :
            /\ markets[i].id = market_id
            /\ \A j \in 1 .. (i - 1) : markets[j].id # market_id
    ELSE 0

\* position_index matching the account alone, whatever the market of the key
position_index_by_account(key) ==
    IF \E i \in 1 .. Len(positions) : positions[i].key[2] = key[2]
    THEN CHOOSE i \in 1 .. Len(positions) :
            /\ positions[i].key[2] = key[2]
            /\ \A j \in 1 .. (i - 1) : positions[j].key[2] # key[2]
    ELSE 0

\* self.positions.iter().position(|(k, _)| *k == key)
position_index(key) ==
    IF \E i \in 1 .. Len(positions) : positions[i].key = key
    THEN CHOOSE i \in 1 .. Len(positions) :
            /\ positions[i].key = key
            /\ \A j \in 1 .. (i - 1) : positions[j].key # key
    ELSE 0

\* PredictionMarket::get_position: the stored position or the default one
get_position(market_id, account) ==
    LET pi == position_index(<< market_id, account >>)
    IN  IF pi = 0 THEN << >> ELSE positions[pi].shares

\* ------------------------------------------------------------------------
\* Outcomes of a call: result is "Ok", the message of the Err returned, or
\* "Panic" (arithmetic overflow in a build with overflow checks: the call
\* traps and the host keeps the ledger as it was)
\* ------------------------------------------------------------------------
Outcome(result, value, after) == [result |-> result, value |-> value, ledger |-> after]

Ok(value, after) == Outcome("Ok", value, after)

Err(msg, after) == Outcome(msg, 0, after)

Panic == Outcome("Panic", 0, Ledger)

Succeeds(out) == out.result = "Ok"

Fails(out) == out.result \notin {"Ok", "Panic"}

\* the call's ledger becomes the contract's storage
Install(out) ==
    /\ config' = out.ledger.config
    /\ next_market_id' = out.ledger.next_market_id
    /\ markets' = out.ledger.markets
    /\ positions' = out.ledger.positions
    /\ pending_resolutions' = out.ledger.pending_resolutions
    /\ UNCHANGED overflow_checks

\* ------------------------------------------------------------------------
\* Constructor
\* ------------------------------------------------------------------------
Admin == "alice"

Init ==
    /\ config = [admin |-> Admin, market_creator_agent |-> None,
                 resolver_oracle_agent |-> None]
    /\ next_market_id = 0
    /\ markets = << >>
    /\ positions = << >>
    /\ pending_resolutions = << >>
    /\ overflow_checks \in BOOLEAN
    /\ staked = [m \in 0 .. (MaxMarkets - 1) |-> 0]
    /\ stakes = << >>
    /\ paid = [m \in 0 .. (MaxMarkets - 1) |-> 0]
    /\ claimed = {}
    /\ nbets = 0

\* ------------------------------------------------------------------------
\* Admin functions
\* ------------------------------------------------------------------------
set_market_creator(caller, agent_id) ==
    IF caller # config.admin
    THEN Err("Only admin can set market creator", Ledger)
    ELSE Ok(0, [Ledger EXCEPT !.config.market_creator_agent = Some(agent_id)])

\* set_resolver_oracle without the test that the caller is the admin
set_resolver_oracle_anyone(caller, agent_id) ==
    Ok(0, [Ledger EXCEPT !.config.resolver_oracle_agent = Some(agent_id)])

set_resolver_oracle(caller, agent_id) ==
    IF caller # config.admin
    THEN Err("Only admin can set resolver oracle", Ledger)
    ELSE Ok(0, [Ledger EXCEPT !.config.resolver_oracle_agent = Some(agent_id)])

\* new_market recording the admin, not the caller, as the creator
new_market_by_admin(market_id, caller, num_options, resolution_deadline) ==
    [id |-> market_id,
     options |-> [i \in 1 .. num_options |-> i],
     creator |-> config.admin,
     resolution_deadline |-> resolution_deadline,
     shares_per_option |-> Zeros(num_options),
     status |-> "Open",
     winning_option |-> None]

\* new_market with one share slot fewer than options
new_market_short(market_id, caller, num_options, resolution_deadline) ==
    [id |-> market_id,
     options |-> [i \in 1 .. num_options |-> i],
     creator |-> caller,
     resolution_deadline |-> resolution_deadline,
     shares_per_option |-> Zeros(num_options - 1),
     status |-> "Open",
     winning_option |-> None]

\* ------------------------------------------------------------------------
\* Market lifecycle
\* ------------------------------------------------------------------------
new_market(market_id, caller, num_options, resolution_deadline) ==
    [id |-> market_id,
     options |-> [i \in 1 .. num_options |-> i],
     creator |-> caller,
     resolution_deadline |-> resolution_deadline,
     shares_per_option |-> Zeros(num_options),
     status |-> "Open",
     winning_option |-> None]

\* create_market that hands out its id without advancing next_market_id
create_market_same_id(caller, num_options, resolution_deadline) ==
    IF config.market_creator_agent = None
    THEN Err("Market creator agent not configured", Ledger)
    ELSE IF caller # config.market_creator_agent[1]
    THEN Err("Only market creator agent can create markets", Ledger)
    ELSE IF num_options < 2
    THEN Err("Market must have at least 2 options", Ledger)
    ELSE IF num_options > MAX_OPTIONS
    THEN Err("Too many options", Ledger)
    ELSE Ok(next_market_id,
            [Ledger EXCEPT
                !.markets = Append(markets,
                    new_market(next_market_id, caller, num_options,
                               resolution_deadline))])

\* create_market refusing a market of exactly MAX_OPTIONS options (>= for >)
create_market_below_max(caller, num_options, resolution_deadline) ==
    IF config.market_creator_agent = None
    THEN Err("Market creator agent not configured", Ledger)
    ELSE IF caller # config.market_creator_agent[1]
    THEN Err("Only market creator agent can create markets", Ledger)
    ELSE IF num_options < 2
    THEN Err("Market must have at least 2 options", Ledger)
    ELSE IF num_options >= MAX_OPTIONS
    THEN Err("Too many options", Ledger)
    ELSE Ok(next_market_id,
            [Ledger EXCEPT
                !.next_market_id = next_market_id + 1,
                !.markets = Append(markets,
                    new_market(next_market_id, caller, num_options,
                               resolution_deadline))])

create_market(caller, num_options, resolution_deadline) ==
    IF config.market_creator_agent = None
    THEN Err("Market creator agent not configured", Ledger)
    ELSE IF caller # config.market_creator_agent[1]
    THEN Err("Only market creator agent can create markets", Ledger)
    ELSE IF num_options < 2
    THEN Err("Market must have at least 2 options", Ledger)
    ELSE IF num_options > MAX_OPTIONS
    THEN Err("Too many options", Ledger)
    ELSE Ok(next_market_id,
            [Ledger EXCEPT
                !.next_market_id = next_market_id + 1,
                !.markets = Append(markets,
                    new_market(next_market_id, caller, num_options,
                               resolution_deadline))])

\* pos.shares after `while pos.shares.len() < market.options.len() { push(0) }`
extend_shares(shares, num_options) ==
    IF Len(shares) < num_options
    THEN shares \o Zeros(num_options - Len(shares))
    ELSE shares

\* place_bet without the test that the market is Open
place_bet_any_status(caller, market_id, option_index, amount) ==
    LET mi == get_market(market_id) IN
    IF mi = 0
    THEN Err("Market not found", Ledger)
    ELSE LET market == markets[mi] IN
    IF option_index >= Len(market.options)
    THEN Err("Invalid option index", Ledger)
    ELSE LET idx == option_index + 1
             key == << market_id, caller >>
             pi == position_index(key)
             slot_sum == market.shares_per_option[idx] + amount
             old_shares == IF pi = 0
                           THEN Zeros(Len(market.options))
                           ELSE extend_shares(positions[pi].shares, Len(market.options))
             pos_sum == old_shares[idx] + amount
         IN
    IF overflow_checks /\ (Overflows(slot_sum) \/ Overflows(pos_sum))
    THEN Panic
    ELSE Ok(0,
            [Ledger EXCEPT
                !.markets[mi].shares_per_option[idx] = Wrap(slot_sum),
                !.positions =
                    IF pi = 0
                    THEN Append(positions,
                           [key |-> key,
                            shares |-> [old_shares EXCEPT ![idx] = amount]])
                    ELSE [positions EXCEPT
                           ![pi].shares = [old_shares EXCEPT ![idx] = Wrap(pos_sum)]]])

\* place_bet creating a new position that reaches only the option bet on,
\* in place of Position::new(market.options.len())
place_bet_short_position(caller, market_id, option_index, amount) ==
    LET mi == get_market(market_id) IN
    IF mi = 0
    THEN Err("Market not found", Ledger)
    ELSE LET market == markets[mi] IN
    IF market.status # "Open"
    THEN Err("Market is not open for betting", Ledger)
    ELSE IF option_index >= Len(market.options)
    THEN Err("Invalid option index", Ledger)
    ELSE LET idx == option_index + 1
             key == << market_id, caller >>
             pi == position_index(key)
             slot_sum == market.shares_per_option[idx] + amount
             old_shares == IF pi = 0
                           THEN Zeros(idx)
                           ELSE extend_shares(positions[pi].shares, Len(market.options))
             pos_sum == old_shares[idx] + amount
         IN
    IF overflow_checks /\ (Overflows(slot_sum) \/ Overflows(pos_sum))
    THEN Panic
    ELSE Ok(0,
            [Ledger EXCEPT
                !.markets[mi].shares_per_option[idx] = Wrap(slot_sum),
                !.positions =
                    IF pi = 0
                    THEN Append(positions,
                           [key |-> key,
                            shares |-> [old_shares EXCEPT ![idx] = amount]])
                    ELSE [positions EXCEPT
                           ![pi].shares = [old_shares EXCEPT ![idx] = Wrap(pos_sum)]]])

place_bet(caller, market_id, option_index, amount) ==
    LET mi == get_market(market_id) IN
    IF mi = 0
    THEN Err("Market not found", Ledger)
    ELSE LET market == markets[mi] IN
    IF market.status # "Open"
    THEN Err("Market is not open for betting", Ledger)
    ELSE IF option_index >= Len(market.options)
    THEN Err("Invalid option index", Ledger)
    ELSE LET idx == option_index + 1
             key == << market_id, caller >>
             pi == position_index(key)
             slot_sum == market.shares_per_option[idx] + amount
             old_shares == IF pi = 0
                           THEN Zeros(Len(market.options))
                           ELSE extend_shares(positions[pi].shares, Len(market.options))
             pos_sum == old_shares[idx] + amount
         IN
    IF overflow_checks /\ (Overflows(slot_sum) \/ Overflows(pos_sum))
    THEN Panic
    ELSE Ok(0,
            [Ledger EXCEPT
                !.markets[mi].shares_per_option[idx] = Wrap(slot_sum),
                !.positions =
                    IF pi = 0
                    THEN Append(positions,
                           [key |-> key,
                            shares |-> [old_shares EXCEPT ![idx] = amount]])
                    ELSE [positions EXCEPT
                           ![pi].shares = [old_shares EXCEPT ![idx] = Wrap(pos_sum)]]])

\* the ContractAgentRequest returned to the host; `input` is the
\* MarketResolutionRequest before encoding
agent_request(resolver, market_id, market) ==
    [target_agent |-> resolver,
     input |-> [market_id |-> market_id, options |-> market.options],
     ttl_blocks |-> 100,
     callback |-> Some([selector |-> << 4, 0, 0, 1 >>, gas_limit |-> 1000000000])]

\* request_resolution without the test that the market is Open
request_resolution_any_status(market_id, current_block) ==
    LET mi == get_market(market_id) IN
    IF mi = 0
    THEN Err("Market not found", Ledger)
    ELSE LET market == markets[mi] IN
    IF current_block < market.resolution_deadline
    THEN Err("Resolution deadline not reached", Ledger)
    ELSE IF config.resolver_oracle_agent = None
    THEN Err("Resolver oracle not configured", Ledger)
    ELSE Ok(agent_request(config.resolver_oracle_agent[1], market_id, market),
            [Ledger EXCEPT !.markets[mi].status = "PendingResolution"])

\* request_resolution with the deadline test off by one (<= for <)
request_resolution_late(market_id, current_block) ==
    LET mi == get_market(market_id) IN
    IF mi = 0
    THEN Err("Market not found", Ledger)
    ELSE LET market == markets[mi] IN
    IF current_block <= market.resolution_deadline
    THEN Err("Resolution deadline not reached", Ledger)
    ELSE IF market.status # "Open"
    THEN Err("Market is not open", Ledger)
    ELSE IF config.resolver_oracle_agent = None
    THEN Err("Resolver oracle not configured", Ledger)
    ELSE Ok(agent_request(config.resolver_oracle_agent[1], market_id, market),
            [Ledger EXCEPT !.markets[mi].status = "PendingResolution"])

\* request_resolution writing the status before it looks up the resolver
request_resolution_early_write(market_id, current_block) ==
    LET mi == get_market(market_id) IN
    IF mi = 0
    THEN Err("Market not found", Ledger)
    ELSE LET market == markets[mi]
             written == [Ledger EXCEPT !.markets[mi].status = "PendingResolution"]
         IN
    IF current_block < market.resolution_deadline
    THEN Err("Resolution deadline not reached", Ledger)
    ELSE IF market.status # "Open"
    THEN Err("Market is not open", Ledger)
    ELSE IF config.resolver_oracle_agent = None
    THEN Err("Resolver oracle not configured", written)
    ELSE Ok(agent_request(config.resolver_oracle_agent[1], market_id, market),
            written)

request_resolution(market_id, current_block) ==
    LET mi == get_market(market_id) IN
    IF mi = 0
    THEN Err("Market not found", Ledger)
    ELSE LET market == markets[mi] IN
    IF current_block < market.resolution_deadline
    THEN Err("Resolution deadline not reached", Ledger)
    ELSE IF market.status # "Open"
    THEN Err("Market is not open", Ledger)
    ELSE IF config.resolver_oracle_agent = None
    THEN Err("Resolver oracle not configured", Ledger)
    ELSE Ok(agent_request(config.resolver_oracle_agent[1], market_id, market),
            [Ledger EXCEPT !.markets[mi].status = "PendingResolution"])

\* ------------------------------------------------------------------------
\* SCALE codec of ResolutionResult (parity_scale_codec): u64 little endian,
\* u8, u8, then the string as a compact length prefix and its UTF-8 bytes.
\* Strings here are shorter than 64 bytes (single-byte compact prefix) and
\* their bytes are ASCII or 0xFF, which is never valid UTF-8.
\* ------------------------------------------------------------------------
RECURSIVE encode_le(_, _)
encode_le(n, nbytes) ==
    IF nbytes = 0 THEN << >>
    ELSE << n % 256 >> \o encode_le(n \div 256, nbytes - 1)

RECURSIVE decode_le(_)
decode_le(bytes) ==
    IF bytes = << >> THEN 0
    ELSE Head(bytes) + 256 * decode_le(Tail(bytes))

encode_result(r) ==
    encode_le(r.market_id, 8) \o << r.winning_option >> \o << r.confidence_pct >>
        \o << 4 * Len(r.evidence_summary) >> \o r.evidence_summary

decode_failed == [ok |-> FALSE, market_id |-> 0, winning_option |-> 0,
                  confidence_pct |-> 0, evidence_summary |-> << >>]

\* ResolutionResult::decode(&mut &output[..]); trailing bytes are ignored
decode_result(bytes) ==
    IF Len(bytes) < 11 THEN decode_failed
    ELSE LET prefix == bytes[11]
             n == prefix \div 4
         IN  IF prefix % 4 # 0 \/ Len(bytes) < 11 + n THEN decode_failed
             ELSE LET text == SubSeq(bytes, 12, 11 + n) IN
                  IF \E i \in 1 .. n : text[i] >= 128 THEN decode_failed
                  ELSE [ok |-> TRUE,
                        market_id |-> decode_le(SubSeq(bytes, 1, 8)),
                        winning_option |-> bytes[9],
                        confidence_pct |-> bytes[10],
                        evidence_summary |-> text]

\* on_resolution_complete accepting a market that is already Resolved
on_resolution_complete_again(callback_payload) ==
    IF ~ callback_payload.success
    THEN Err("Oracle agent failed to resolve", Ledger)
    ELSE LET result == decode_result(callback_payload.output) IN
    IF ~ result.ok
    THEN Err("Failed to decode resolution result", Ledger)
    ELSE LET mi == get_market(result.market_id) IN
    IF mi = 0
    THEN Err("Market not found", Ledger)
    ELSE LET market == markets[mi] IN
    IF market.status \notin {"PendingResolution", "Resolved"}
    THEN Err("Market is not pending resolution", Ledger)
    ELSE IF result.winning_option >= Len(market.options)
    THEN Err("Invalid winning option index", Ledger)
    ELSE Ok(0,
            [Ledger EXCEPT
                !.markets[mi].status = "Resolved",
                !.markets[mi].winning_option = Some(result.winning_option),
                !.pending_resolutions =
                    SelectSeq(pending_resolutions,
                              LAMBDA e : e[1] # result.market_id)])

\* on_resolution_complete refusing a result of confidence below 50
on_resolution_complete_confident(callback_payload) ==
    IF ~ callback_payload.success
    THEN Err("Oracle agent failed to resolve", Ledger)
    ELSE LET result == decode_result(callback_payload.output) IN
    IF ~ result.ok
    THEN Err("Failed to decode resolution result", Ledger)
    ELSE IF result.confidence_pct < 50
    THEN Err("Confidence too low", Ledger)
    ELSE LET mi == get_market(result.market_id) IN
    IF mi = 0
    THEN Err("Market not found", Ledger)
    ELSE LET market == markets[mi] IN
    IF market.status # "PendingResolution"
    THEN Err("Market is not pending resolution", Ledger)
    ELSE IF result.winning_option >= Len(market.options)
    THEN Err("Invalid winning option index", Ledger)
    ELSE Ok(0,
            [Ledger EXCEPT
                !.markets[mi].status = "Resolved",
                !.markets[mi].winning_option = Some(result.winning_option),
                !.pending_resolutions =
                    SelectSeq(pending_resolutions,
                              LAMBDA e : e[1] # result.market_id)])

\* on_resolution_complete without the test that the market is pending
on_resolution_complete_any_status(callback_payload) ==
    IF ~ callback_payload.success
    THEN Err("Oracle agent failed to resolve", Ledger)
    ELSE LET result == decode_result(callback_payload.output) IN
    IF ~ result.ok
    THEN Err("Failed to decode resolution result", Ledger)
    ELSE LET mi == get_market(result.market_id) IN
    IF mi = 0
    THEN Err("Market not found", Ledger)
    ELSE LET market == markets[mi] IN
    IF result.winning_option >= Len(market.options)
    THEN Err("Invalid winning option index", Ledger)
    ELSE Ok(0,
            [Ledger EXCEPT
                !.markets[mi].status = "Resolved",
                !.markets[mi].winning_option = Some(result.winning_option),
                !.pending_resolutions =
                    SelectSeq(pending_resolutions,
                              LAMBDA e : e[1] # result.market_id)])

\* on_resolution_complete without the range test of the winning option
on_resolution_complete_any_index(callback_payload) ==
    IF ~ callback_payload.success
    THEN Err("Oracle agent failed to resolve", Ledger)
    ELSE LET result == decode_result(callback_payload.output) IN
    IF ~ result.ok
    THEN Err("Failed to decode resolution result", Ledger)
    ELSE LET mi == get_market(result.market_id) IN
    IF mi = 0
    THEN Err("Market not found", Ledger)
    ELSE LET market == markets[mi] IN
    IF market.status # "PendingResolution"
    THEN Err("Market is not pending resolution", Ledger)
    ELSE Ok(0,
            [Ledger EXCEPT
                !.markets[mi].status = "Resolved",
                !.markets[mi].winning_option = Some(result.winning_option),
                !.pending_resolutions =
                    SelectSeq(pending_resolutions,
                              LAMBDA e : e[1] # result.market_id)])

\* on_resolution_complete that applies a result the oracle reported as failed
on_resolution_complete_ignore_flag(callback_payload) ==
    LET result == decode_result(callback_payload.output) IN
    IF ~ result.ok
    THEN Err("Failed to decode resolution result", Ledger)
    ELSE LET mi == get_market(result.market_id) IN
    IF mi = 0
    THEN Err("Market not found", Ledger)
    ELSE LET market == markets[mi] IN
    IF market.status # "PendingResolution"
    THEN Err("Market is not pending resolution", Ledger)
    ELSE IF result.winning_option >= Len(market.options)
    THEN Err("Invalid winning option index", Ledger)
    ELSE Ok(0,
            [Ledger EXCEPT
                !.markets[mi].status = "Resolved",
                !.markets[mi].winning_option = Some(result.winning_option),
                !.pending_resolutions =
                    SelectSeq(pending_resolutions,
                              LAMBDA e : e[1] # result.market_id)])

\* on_resolution_complete looking the request up in pending_resolutions: it
\* refuses a market that has no entry there
on_resolution_complete_needs_entry(callback_payload) ==
    IF ~ callback_payload.success
    THEN Err("Oracle agent failed to resolve", Ledger)
    ELSE LET result == decode_result(callback_payload.output) IN
    IF ~ result.ok
    THEN Err("Failed to decode resolution result", Ledger)
    ELSE LET mi == get_market(result.market_id) IN
    IF mi = 0
    THEN Err("Market not found", Ledger)
    ELSE LET market == markets[mi] IN
    IF \/ market.status # "PendingResolution"
       \/ \A i \in 1 .. Len(pending_resolutions) :
              pending_resolutions[i][1] # result.market_id
    THEN Err("Market is not pending resolution", Ledger)
    ELSE IF result.winning_option >= Len(market.options)
    THEN Err("Invalid winning option index", Ledger)
    ELSE Ok(0,
            [Ledger EXCEPT
                !.markets[mi].status = "Resolved",
                !.markets[mi].winning_option = Some(result.winning_option),
                !.pending_resolutions =
                    SelectSeq(pending_resolutions,
                              LAMBDA e : e[1] # result.market_id)])

on_resolution_complete(callback_payload) ==
    IF ~ callback_payload.success
    THEN Err("Oracle agent failed to resolve", Ledger)
    ELSE LET result == decode_result(callback_payload.output) IN
    IF ~ result.ok
    THEN Err("Failed to decode resolution result", Ledger)
    ELSE LET mi == get_market(result.market_id) IN
    IF mi = 0
    THEN Err("Market not found", Ledger)
    ELSE LET market == markets[mi] IN
    IF market.status # "PendingResolution"
    THEN Err("Market is not pending resolution", Ledger)
    ELSE IF result.winning_option >= Len(market.options)
    THEN Err("Invalid winning option index", Ledger)
    ELSE Ok(0,
            [Ledger EXCEPT
                !.markets[mi].status = "Resolved",
                !.markets[mi].winning_option = Some(result.winning_option),
                !.pending_resolutions =
                    SelectSeq(pending_resolutions,
                              LAMBDA e : e[1] # result.market_id)])

\* claim_winnings that also takes the claimed shares out of the winning pool
claim_winnings_shrink_pool(caller, market_id) ==
    LET mi == get_market(market_id) IN
    IF mi = 0
    THEN Err("Market not found", Ledger)
    ELSE LET market == markets[mi] IN
    IF market.status # "Resolved"
    THEN Err("Market not resolved", Ledger)
    ELSE IF market.winning_option = None
    THEN Err("No winning option set", Ledger)
    ELSE LET winning_idx == market.winning_option[1]
             position_idx == position_index(<< market_id, caller >>)
         IN
    IF position_idx = 0
    THEN Err("No position in this market", Ledger)
    ELSE LET position == positions[position_idx] IN
    IF winning_idx >= Len(position.shares)
    THEN Err("No winning shares", Ledger)
    ELSE LET winning_shares == position.shares[winning_idx + 1] IN
    IF winning_shares = 0
    THEN Err("No winning shares", Ledger)
    ELSE IF overflow_checks /\ Overflows(SeqSum(market.shares_per_option))
    THEN Panic
    ELSE LET pool == total_pool(market)
             winning_pool == market.shares_per_option[winning_idx + 1]
             product == winning_shares * pool
         IN
    IF winning_pool = 0
    THEN Err("No shares in winning option", Ledger)
    ELSE IF overflow_checks /\ Overflows(product)
    THEN Panic
    ELSE Ok(Wrap(product) \div winning_pool,
            [Ledger EXCEPT
                !.markets[mi].shares_per_option[winning_idx + 1] =
                    Wrap(@ + BalanceModulus - Wrap(winning_shares)),
                !.positions = RemoveAt(positions, position_idx)])

\* claim_winnings that clears the claimed slot and keeps the rest of the
\* position
claim_winnings_keep_losers(caller, market_id) ==
    LET mi == get_market(market_id) IN
    IF mi = 0
    THEN Err("Market not found", Ledger)
    ELSE LET market == markets[mi] IN
    IF market.status # "Resolved"
    THEN Err("Market not resolved", Ledger)
    ELSE IF market.winning_option = None
    THEN Err("No winning option set", Ledger)
    ELSE LET winning_idx == market.winning_option[1]
             position_idx == position_index(<< market_id, caller >>)
         IN
    IF position_idx = 0
    THEN Err("No position in this market", Ledger)
    ELSE LET position == positions[position_idx] IN
    IF winning_idx >= Len(position.shares)
    THEN Err("No winning shares", Ledger)
    ELSE LET winning_shares == position.shares[winning_idx + 1] IN
    IF winning_shares = 0
    THEN Err("No winning shares", Ledger)
    ELSE IF overflow_checks /\ Overflows(SeqSum(market.shares_per_option))
    THEN Panic
    ELSE LET pool == total_pool(market)
             winning_pool == market.shares_per_option[winning_idx + 1]
             product == winning_shares * pool
         IN
    IF winning_pool = 0
    THEN Err("No shares in winning option", Ledger)
    ELSE IF overflow_checks /\ Overflows(product)
    THEN Panic
    ELSE Ok(Wrap(product) \div winning_pool,
            [Ledger EXCEPT
                !.positions[position_idx].shares[winning_idx + 1] = 0])

\* claim_winnings that pays and leaves the position in place
claim_winnings_keep_position(caller, market_id) ==
    LET mi == get_market(market_id) IN
    IF mi = 0
    THEN Err("Market not found", Ledger)
    ELSE LET market == markets[mi] IN
    IF market.status # "Resolved"
    THEN Err("Market not resolved", Ledger)
    ELSE IF market.winning_option = None
    THEN Err("No winning option set", Ledger)
    ELSE LET winning_idx == market.winning_option[1]
             position_idx == position_index(<< market_id, caller >>)
         IN
    IF position_idx = 0
    THEN Err("No position in this market", Ledger)
    ELSE LET position == positions[position_idx] IN
    IF winning_idx >= Len(position.shares)
    THEN Err("No winning shares", Ledger)
    ELSE LET winning_shares == position.shares[winning_idx + 1] IN
    IF winning_shares = 0
    THEN Err("No winning shares", Ledger)
    ELSE IF overflow_checks /\ Overflows(SeqSum(market.shares_per_option))
    THEN Panic
    ELSE LET pool == total_pool(market)
             winning_pool == market.shares_per_option[winning_idx + 1]
             product == winning_shares * pool
         IN
    IF winning_pool = 0
    THEN Err("No shares in winning option", Ledger)
    ELSE IF overflow_checks /\ Overflows(product)
    THEN Panic
    ELSE Ok(Wrap(product) \div winning_pool, Ledger)

\* claim_winnings without the test that the caller's winning shares are not 0
claim_winnings_zero_shares(caller, market_id) ==
    LET mi == get_market(market_id) IN
    IF mi = 0
    THEN Err("Market not found", Ledger)
    ELSE LET market == markets[mi] IN
    IF market.status # "Resolved"
    THEN Err("Market not resolved", Ledger)
    ELSE IF market.winning_option = None
    THEN Err("No winning option set", Ledger)
    ELSE LET winning_idx == market.winning_option[1]
             position_idx == position_index(<< market_id, caller >>)
         IN
    IF position_idx = 0
    THEN Err("No position in this market", Ledger)
    ELSE LET position == positions[position_idx] IN
    IF winning_idx >= Len(position.shares)
    THEN Err("No winning shares", Ledger)
    ELSE LET winning_shares == position.shares[winning_idx + 1] IN
    IF overflow_checks /\ Overflows(SeqSum(market.shares_per_option))
    THEN Panic
    ELSE LET pool == total_pool(market)
             winning_pool == market.shares_per_option[winning_idx + 1]
             product == winning_shares * pool
         IN
    IF winning_pool = 0
    THEN Err("No shares in winning option", Ledger)
    ELSE IF overflow_checks /\ Overflows(product)
    THEN Panic
    ELSE Ok(Wrap(product) \div winning_pool,
            [Ledger EXCEPT !.positions = RemoveAt(positions, position_idx)])

claim_winnings(caller, market_id) ==
    LET mi == get_market(market_id) IN
    IF mi = 0
    THEN Err("Market not found", Ledger)
    ELSE LET market == markets[mi] IN
    IF market.status # "Resolved"
    THEN Err("Market not resolved", Ledger)
    ELSE IF market.winning_option = None
    THEN Err("No winning option set", Ledger)
    ELSE LET winning_idx == market.winning_option[1]
             position_idx == position_index(<< market_id, caller >>)
         IN
    IF position_idx = 0
    THEN Err("No position in this market", Ledger)
    ELSE LET position == positions[position_idx] IN
    IF winning_idx >= Len(position.shares)
    THEN Err("No winning shares", Ledger)
    ELSE LET winning_shares == position.shares[winning_idx + 1] IN
    IF winning_shares = 0
    THEN Err("No winning shares", Ledger)
    ELSE IF overflow_checks /\ Overflows(SeqSum(market.shares_per_option))
    THEN Panic
    ELSE LET pool == total_pool(market)
             winning_pool == market.shares_per_option[winning_idx + 1]
             product == winning_shares * pool
         IN
    IF winning_pool = 0
    THEN Err("No shares in winning option", Ledger)
    ELSE IF overflow_checks /\ Overflows(product)
    THEN Panic
    ELSE Ok(Wrap(product) \div winning_pool,
            [Ledger EXCEPT !.positions = RemoveAt(positions, position_idx)])

\* get_implied_odds rounding the equal share of an empty pool up
get_implied_odds_round_up(market_id) ==
    LET mi == get_market(market_id) IN
    IF mi = 0
    THEN Ok(None, Ledger)
    ELSE LET market == markets[mi]
             n == Len(market.options)
         IN
    IF overflow_checks /\ Overflows(SeqSum(market.shares_per_option))
    THEN Panic
    ELSE LET total == total_pool(market) IN
    IF total = 0
    THEN Ok(Some([i \in 1 .. n |-> (100 + (n % 256) - 1) \div (n % 256)]), Ledger)
    ELSE IF overflow_checks
            /\ \E i \in 1 .. Len(market.shares_per_option) :
                  Overflows(market.shares_per_option[i] * 100)
    THEN Panic
    ELSE Ok(Some([i \in 1 .. Len(market.shares_per_option) |->
                    (Wrap(market.shares_per_option[i] * 100) \div total) % 256]),
            Ledger)

\* ------------------------------------------------------------------------
\* View functions
\* ------------------------------------------------------------------------
\* get_implied_odds: None for an unknown market, else one u8 per option.
\* `100 / market.options.len() as u8` divides in u8; `shares * 100` is a
\* Balance product; `as u8` keeps the low 8 bits of the quotient.
get_implied_odds(market_id) ==
    LET mi == get_market(market_id) IN
    IF mi = 0
    THEN Ok(None, Ledger)
    ELSE LET market == markets[mi]
             n == Len(market.options)
         IN
    IF overflow_checks /\ Overflows(SeqSum(market.shares_per_option))
    THEN Panic
    ELSE LET total == total_pool(market) IN
    IF total = 0
    THEN Ok(Some([i \in 1 .. n |-> 100 \div (n % 256)]), Ledger)
    ELSE IF overflow_checks
            /\ \E i \in 1 .. Len(market.shares_per_option) :
                  Overflows(market.shares_per_option[i] * 100)
    THEN Panic
    ELSE Ok(Some([i \in 1 .. Len(market.shares_per_option) |->
                    (Wrap(market.shares_per_option[i] * 100) \div total) % 256]),
            Ledger)

\* ------------------------------------------------------------------------
\* Inputs of the callback
\* ------------------------------------------------------------------------
Results ==
    [market_id : MarketIds, winning_option : OptionIndexes,
     confidence_pct : {95}, evidence_summary : {<< 111, 107 >>}]

Outputs ==
    {encode_result(r) : r \in Results}
        \cup {<< >>, << 0, 0, 0, 0, 0, 0, 0, 0, 1 >>,
              << 0, 0, 0, 0, 0, 0, 0, 0, 1, 95, 4, 255 >>}

Payloads ==
    [request_id : {1}, run_id : {1}, success : BOOLEAN, output : Outputs]

\* ------------------------------------------------------------------------
\* Actions: one call of one operation
\* ------------------------------------------------------------------------
\* stakes after a successful bet: the amounts staked so far under each
\* (market id, account, option index), with `amount` added under `key`
StakedUnder(key) == IF key \in DOMAIN stakes THEN stakes[key] ELSE 0

Staked(key, amount) ==
    [k \in DOMAIN stakes \cup {key} |->
        StakedUnder(k) + (IF k = key THEN amount ELSE 0)]

SetMarketCreator(caller, agent_id) ==
    /\ Install(set_market_creator(caller, agent_id))
    /\ UNCHANGED << staked, stakes, paid, claimed, nbets >>

SetResolverOracle(caller, agent_id) ==
    /\ Install(set_resolver_oracle(caller, agent_id))
    /\ UNCHANGED << staked, stakes, paid, claimed, nbets >>

CreateMarket(caller, num_options, resolution_deadline) ==
    LET out == create_market(caller, num_options, resolution_deadline) IN
    /\ Succeeds(out) => next_market_id < MaxMarkets
    /\ Install(out)
    /\ UNCHANGED << staked, stakes, paid, claimed, nbets >>

PlaceBet(caller, market_id, option_index, amount) ==
    LET out == place_bet(caller, market_id, option_index, amount) IN
    /\ Succeeds(out) => nbets < MaxBets
    /\ Install(out)
    /\ staked' = IF Succeeds(out)
                 THEN [staked EXCEPT ![market_id] = @ + amount]
                 ELSE staked
    /\ stakes' = IF Succeeds(out)
                 THEN Staked(<< market_id, caller, option_index >>, amount)
                 ELSE stakes
    /\ nbets' = IF Succeeds(out) THEN nbets + 1 ELSE nbets
    /\ UNCHANGED << paid, claimed >>

RequestResolution(market_id, current_block) ==
    /\ Install(request_resolution(market_id, current_block))
    /\ UNCHANGED << staked, stakes, paid, claimed, nbets >>

OnResolutionComplete(callback_payload) ==
    /\ Install(on_resolution_complete(callback_payload))
    /\ UNCHANGED << staked, stakes, paid, claimed, nbets >>

ClaimWinnings(caller, market_id) ==
    LET out == claim_winnings(caller, market_id) IN
    /\ Install(out)
    /\ paid' = IF Succeeds(out)
               THEN [paid EXCEPT ![market_id] = @ + out.value]
               ELSE paid
    /\ claimed' = IF Succeeds(out)
                  THEN claimed \cup {<< market_id, caller >>}
                  ELSE claimed
    /\ UNCHANGED << staked, stakes, nbets >>

Next ==
    \/ \E caller \in Accounts, agent_id \in AgentIds : SetMarketCreator(caller, agent_id)
    \/ \E caller \in Accounts, agent_id \in OracleIds : SetResolverOracle(caller, agent_id)
    \/ \E caller \in Accounts, n \in OptionCounts, d \in Deadlines : CreateMarket(caller, n, d)
    \/ \E caller \in Accounts, m \in MarketIds, i \in OptionIndexes, a \in Amounts :
            PlaceBet(caller, m, i, a)
    \/ \E m \in MarketIds, b \in Blocks : RequestResolution(m, b)
    \/ \E p \in Payloads : OnResolutionComplete(p)
    \/ \E caller \in Accounts, m \in MarketIds : ClaimWinnings(caller, m)

Spec == Init /\ [][Next]_vars

\* ------------------------------------------------------------------------
\* A second specification: several markets of two or three options, two
\* accounts (the admin and the agent) and a few bets of one share
\* ------------------------------------------------------------------------
ManyMarkets == 2

ManyBets == 2

ManyAccounts == {"alice", "bob"}

ManyAgentIds == {"bob"}

ManyOptionCounts == {1, 2, 3}

ManyOptionIndexes == 0 .. 3

ManyAmounts == {1}

ManyMarketIds == 0 .. ManyMarkets

ManyResults ==
    [market_id : ManyMarketIds, winning_option : ManyOptionIndexes,
     confidence_pct : {95}, evidence_summary : {<< 111, 107 >>}]

ManyPayloads ==
    [request_id : {1}, run_id : {1}, success : BOOLEAN,
     output : {encode_result(r) : r \in ManyResults} \cup {<< >>}]

InitMany ==
    /\ config = [admin |-> Admin, market_creator_agent |-> None,
                 resolver_oracle_agent |-> None]
    /\ next_market_id = 0
    /\ markets = << >>
    /\ positions = << >>
    /\ pending_resolutions = << >>
    /\ overflow_checks \in BOOLEAN
    /\ staked = [m \in 0 .. (ManyMarkets - 1) |-> 0]
    /\ stakes = << >>
    /\ paid = [m \in 0 .. (ManyMarkets - 1) |-> 0]
    /\ claimed = {}
    /\ nbets = 0

\* CreateMarket and PlaceBet with the caps on markets and bets as parameters
CreateMarketUpTo(max_markets, caller, num_options, resolution_deadline) ==
    LET out == create_market(caller, num_options, resolution_deadline) IN
    /\ Succeeds(out) => next_market_id < max_markets
    /\ Install(out)
    /\ UNCHANGED << staked, stakes, paid, claimed, nbets >>

PlaceBetUpTo(max_bets, caller, market_id, option_index, amount) ==
    LET out == place_bet(caller, market_id, option_index, amount) IN
    /\ Succeeds(out) => nbets < max_bets
    /\ Install(out)
    /\ staked' = IF Succeeds(out)
                 THEN [staked EXCEPT ![market_id] = @ + amount]
                 ELSE staked
    /\ stakes' = IF Succeeds(out)
                 THEN Staked(<< market_id, caller, option_index >>, amount)
                 ELSE stakes
    /\ nbets' = IF Succeeds(out) THEN nbets + 1 ELSE nbets
    /\ UNCHANGED << paid, claimed >>

NextMany ==
    \/ \E caller \in ManyAccounts, agent_id \in ManyAgentIds :
            SetMarketCreator(caller, agent_id)
    \/ \E caller \in ManyAccounts, agent_id \in OracleIds :
            SetResolverOracle(caller, agent_id)
    \/ \E caller \in ManyAccounts, n \in ManyOptionCounts, d \in Deadlines :
            CreateMarketUpTo(ManyMarkets, caller, n, d)
    \/ \E caller \in ManyAccounts, m \in ManyMarketIds, i \in ManyOptionIndexes,
          a \in ManyAmounts :
            PlaceBetUpTo(ManyBets, caller, m, i, a)
    \/ \E m \in ManyMarketIds, b \in Blocks : RequestResolution(m, b)
    \/ \E p \in ManyPayloads : OnResolutionComplete(p)
    \/ \E caller \in ManyAccounts, m \in ManyMarketIds : ClaimWinnings(caller, m)

SpecMany == InitMany /\ [][NextMany]_vars

\* ------------------------------------------------------------------------
\* A third specification: one market of any number of options that
\* create_market accepts, and a few bets on its first, second and last
\* option
\* ------------------------------------------------------------------------
OddsMarkets == 1

OddsBets == 2

OddsOptionIndexes == {0, 1, 9}

OddsResults ==
    [market_id : {0}, winning_option : OddsOptionIndexes,
     confidence_pct : {95}, evidence_summary : {<< 111, 107 >>}]

OddsPayloads ==
    [request_id : {1}, run_id : {1}, success : BOOLEAN,
     output : {encode_result(r) : r \in OddsResults} \cup {<< >>}]

NextOdds ==
    \/ \E caller \in ManyAccounts, agent_id \in ManyAgentIds :
            SetMarketCreator(caller, agent_id)
    \/ \E caller \in ManyAccounts, agent_id \in OracleIds :
            SetResolverOracle(caller, agent_id)
    \/ \E caller \in ManyAccounts, n \in AnyOptionCounts, d \in Deadlines :
            CreateMarketUpTo(OddsMarkets, caller, n, d)
    \/ \E caller \in ManyAccounts, i \in OddsOptionIndexes, a \in Amounts :
            PlaceBetUpTo(OddsBets, caller, 0, i, a)
    \/ \E b \in Blocks : RequestResolution(0, b)
    \/ \E p \in OddsPayloads : OnResolutionComplete(p)
    \/ \E caller \in ManyAccounts : ClaimWinnings(caller, 0)

SpecOdds == Init /\ [][NextOdds]_vars

\* ------------------------------------------------------------------------
\* A fourth specification: the admin installs either of two accounts as the
\* creator agent, again and again; several binary markets and one bet
\* ------------------------------------------------------------------------
AgentsBets == 1

BothAgentIds == {"alice", "bob"}

NextAgents ==
    \/ \E caller \in ManyAccounts, agent_id \in BothAgentIds :
            SetMarketCreator(caller, agent_id)
    \/ \E caller \in ManyAccounts, agent_id \in OracleIds :
            SetResolverOracle(caller, agent_id)
    \/ \E caller \in ManyAccounts, n \in OptionCounts, d \in Deadlines :
            CreateMarketUpTo(ManyMarkets, caller, n, d)
    \/ \E caller \in ManyAccounts, m \in ManyMarketIds, i \in OptionIndexes,
          a \in ManyAmounts :
            PlaceBetUpTo(AgentsBets, caller, m, i, a)
    \/ \E m \in ManyMarketIds, b \in Blocks : RequestResolution(m, b)
    \/ \E p \in ManyPayloads : OnResolutionComplete(p)
    \/ \E caller \in ManyAccounts, m \in ManyMarketIds : ClaimWinnings(caller, m)

SpecAgents == InitMany /\ [][NextAgents]_vars

\* ------------------------------------------------------------------------
\* Properties
\* ------------------------------------------------------------------------
StoredIds == {markets[i].id : i \in 1 .. Len(markets)}

\* C1: a market is created Open, and its status changes only from Open to
\* PendingResolution in a request_resolution step for it and from
\* PendingResolution to Resolved in an on_resolution_complete step for it;
\* it never returns to Open, never goes from Open to Resolved, and never
\* leaves Resolved.
C1_StatusLifecycle ==
    [][ /\ Len(markets') >= Len(markets)
        /\ \A i \in 1 .. Len(markets') :
              IF i > Len(markets)
              THEN markets'[i].status = "Open"
              ELSE \/ markets'[i].status = markets[i].status
                   \/ /\ markets[i].status = "Open"
                      /\ markets'[i].status = "PendingResolution"
                      /\ \E b \in Blocks : RequestResolution(markets[i].id, b)
                   \/ /\ markets[i].status = "PendingResolution"
                      /\ markets'[i].status = "Resolved"
                      /\ \E p \in Payloads :
                            /\ decode_result(p.output).market_id = markets[i].id
                            /\ OnResolutionComplete(p)
      ]_vars

C1_Witness ==
    \E i \in 1 .. Len(markets) :
        markets[i].status = "Resolved" /\ staked[markets[i].id] > 0

\* C2: for every market, winning_option is set exactly when the status is
\* Resolved, and a set winning_option is an index below options.len().
C2_WinnerIffResolved ==
    \A i \in 1 .. Len(markets) :
        /\ markets[i].winning_option # None <=> markets[i].status = "Resolved"
        /\ markets[i].winning_option # None =>
              markets[i].winning_option[1] < Len(markets[i].options)

C2_Witness ==
    \E i \in 1 .. Len(markets) :
        /\ markets[i].status = "Resolved"
        /\ markets[i].winning_option = Some(Len(markets[i].options) - 1)

\* C3, as stated: for every existing market and block, request_resolution
\* succeeds exactly when the market is Open and the block is at or past the
\* deadline.
C3_AsStated ==
    \A m \in StoredIds, b \in Blocks :
        LET market == markets[get_market(m)] IN
        Succeeds(request_resolution(m, b)) <=>
            (market.status = "Open" /\ b >= market.resolution_deadline)

\* C3, amended: for every existing market and block, request_resolution
\* succeeds exactly when the market is Open, the block is at or past the
\* deadline and a resolver oracle agent is configured; on success the
\* market's status becomes PendingResolution and nothing else in the ledger
\* changes.
C3_RequestResolution ==
    \A m \in StoredIds, b \in Blocks :
        LET mi == get_market(m)
            market == markets[mi]
            out == request_resolution(m, b)
        IN  /\ Succeeds(out) <=>
                  /\ market.status = "Open"
                  /\ b >= market.resolution_deadline
                  /\ config.resolver_oracle_agent # None
            /\ Succeeds(out) =>
                  out.ledger = [Ledger EXCEPT !.markets[mi].status = "PendingResolution"]

C3_Witness ==
    /\ config.resolver_oracle_agent # None
    /\ \E i \in 1 .. Len(markets) :
          /\ markets[i].status = "PendingResolution"
          /\ markets[i].winning_option = None

\* C4: for every callback whose payload decodes and names an existing
\* market, on_resolution_complete succeeds exactly when that market is
\* PendingResolution, the reported winning option is below options.len()
\* and the success flag is set; on success the status is Resolved and
\* winning_option is the reported index.
C4_ResolutionCallback ==
    \A p \in Payloads :
        LET result == decode_result(p.output)
            mi == get_market(result.market_id)
            out == on_resolution_complete(p)
        IN  (result.ok /\ mi # 0) =>
              /\ Succeeds(out) <=>
                    /\ markets[mi].status = "PendingResolution"
                    /\ result.winning_option < Len(markets[mi].options)
                    /\ p.success
              /\ Succeeds(out) =>
                    /\ out.ledger.markets[mi].status = "Resolved"
                    /\ out.ledger.markets[mi].winning_option = Some(result.winning_option)

C4_Witness ==
    \E i \in 1 .. Len(markets) :
        /\ markets[i].status = "Resolved"
        /\ markets[i].winning_option = Some(0)
        /\ \E p \in Payloads :
              on_resolution_complete(p).result = "Market is not pending resolution"

\* a call that returns an error leaves the ledger as it was
Harmless(out) == Fails(out) => out.ledger = Ledger

\* C5: a call of any operation that returns an error leaves the ledger
\* (config, next market id, markets, positions) as it was before the call.
C5_ErrorsLeaveLedger ==
    /\ \A c \in Accounts, a \in AgentIds : Harmless(set_market_creator(c, a))
    /\ \A c \in Accounts, a \in OracleIds : Harmless(set_resolver_oracle(c, a))
    /\ \A c \in Accounts, n \in OptionCounts, d \in Deadlines :
          Harmless(create_market(c, n, d))
    /\ \A c \in Accounts, m \in MarketIds, i \in OptionIndexes, a \in Amounts :
          Harmless(place_bet(c, m, i, a))
    /\ \A m \in MarketIds, b \in Blocks : Harmless(request_resolution(m, b))
    /\ \A p \in Payloads : Harmless(on_resolution_complete(p))
    /\ \A c \in Accounts, m \in MarketIds : Harmless(claim_winnings(c, m))

C5_Witness ==
    /\ config.resolver_oracle_agent = None
    /\ nbets > 0
    /\ \E m \in StoredIds, b \in Blocks :
          request_resolution(m, b).result = "Resolver oracle not configured"

\* the caller's shares at the winning option of a resolved market
winning_shares_of(account, market) ==
    LET shares == get_position(market.id, account)
        w == market.winning_option[1]
    IN  IF w >= Len(shares) THEN 0 ELSE shares[w + 1]

\* C6: every successful claim_winnings returns
\* floor(caller_winning_shares * total_pool / winning_pool).
C6_AsStated ==
    \A a \in Accounts, m \in StoredIds :
        LET market == markets[get_market(m)]
            out == claim_winnings(a, m)
        IN  Succeeds(out) =>
              out.value =
                 (winning_shares_of(a, market) * total_pool(market))
                    \div market.shares_per_option[market.winning_option[1] + 1]

\* C7: once an account has claimed on a market its position there no longer
\* exists and every further claim_winnings by it on that market fails with
\* the position-not-found error, so a claim succeeds at most once.
C7_ClaimAtMostOnce ==
    \A k \in claimed :
        /\ position_index(k) = 0
        /\ claim_winnings(k[2], k[1]).result = "No position in this market"

C7_Witness ==
    /\ claimed # {}
    /\ positions # << >>

\* the market has a winner and the account holds no shares of it
NoWinningShares(account, market_id) ==
    LET mi == get_market(market_id) IN
    /\ mi # 0
    /\ markets[mi].winning_option # None
    /\ winning_shares_of(account, markets[mi]) = 0

\* the account has nothing to claim and its claim fails
CannotClaim(account, market_id) ==
    /\ NoWinningShares(account, market_id)
    /\ ~ Succeeds(claim_winnings(account, market_id))

\* C8: an account with zero shares at the market's winning option, or with
\* no position, cannot claim successfully, and no later operation changes
\* that: after every step that writes the markets or the positions it
\* still holds no winning shares and its claim still fails.
C8_NothingToClaim ==
    [][ \/ UNCHANGED << markets, positions >>
        \/ \A a \in Accounts, m \in MarketIds :
              /\ NoWinningShares(a, m) => CannotClaim(a, m)'
              /\ NoWinningShares(a, m)' => CannotClaim(a, m)'
      ]_vars

C8_Witness ==
    \E a \in Accounts, m \in StoredIds :
        /\ NoWinningShares(a, m)
        /\ position_index(<< m, a >>) # 0
        /\ claim_winnings(a, m).result = "No winning shares"
        /\ claimed # {}

\* C9: for every market, the payouts of the successful claims made on it
\* never exceed the amounts staked on it by successful bets.
C9_AsStated ==
    \A m \in DOMAIN paid : paid[m] <= staked[m]

\* some stored position of the market still holds shares of the winner
WinnersLeft(market) ==
    \E i \in 1 .. Len(positions) :
        /\ positions[i].key[1] = market.id
        /\ winning_shares_of(positions[i].key[2], market) > 0

\* C10: for every resolved market, once every holder of shares in the
\* winning option has claimed, the payouts add up to the total staked.
\* Stated for the build with overflow checks, where no sum or product
\* wraps, and for markets on which somebody has claimed.
C10_AsStated ==
    overflow_checks =>
        \A i \in 1 .. Len(markets) :
            ( /\ markets[i].status = "Resolved"
              /\ \E a \in Accounts : << markets[i].id, a >> \in claimed
              /\ ~ WinnersLeft(markets[i]) )
            => paid[markets[i].id] = staked[markets[i].id]

\* the shares stored for `key` in a ledger's positions (first match), or the
\* default position's empty Vec
position_in(ledger, key) ==
    IF \E i \in 1 .. Len(ledger.positions) : ledger.positions[i].key = key
    THEN ledger.positions[CHOOSE i \in 1 .. Len(ledger.positions) :
            /\ ledger.positions[i].key = key
            /\ \A j \in 1 .. (i - 1) : ledger.positions[j].key # key].shares
    ELSE << >>

\* the shares a position holds at a 0-based option index: a slot the Vec
\* does not reach holds nothing
share_at(shares, option_index) ==
    IF option_index < Len(shares) THEN shares[option_index + 1] ELSE 0

\* C11: a successful place_bet(caller, m, idx, amt) adds exactly amt to
\* market m's shares_per_option[idx] and to the caller's position shares[idx]
\* in m, and leaves every other slot of the market, every other slot of the
\* caller's position, every other position, the market's status and
\* winning_option and the rest of the ledger as they were.
C11_AsStated ==
    \A c \in Accounts, m \in MarketIds, idx \in OptionIndexes, amt \in Amounts :
        LET out == place_bet(c, m, idx, amt)
            mi == get_market(m)
        IN  Succeeds(out) =>
              /\ out.ledger.markets =
                    [markets EXCEPT ![mi].shares_per_option[idx + 1] = @ + amt]
              /\ \A k \in MarketIds \X Accounts, i \in 0 .. (MAX_OPTIONS - 1) :
                    share_at(position_in(out.ledger, k), i) =
                        share_at(position_in(Ledger, k), i)
                            + (IF k = << m, c >> /\ i = idx THEN amt ELSE 0)
              /\ out.ledger.config = config
              /\ out.ledger.next_market_id = next_market_id
              /\ out.ledger.pending_resolutions = pending_resolutions

\* C12: place_bet(caller, m, idx, amt) succeeds exactly when market m
\* exists, its status is Open and idx is below options.len(); with an
\* out-of-range idx on an existing market it returns an error and leaves the
\* whole ledger, so the market's shares and the caller's position, as it
\* was, creating no position record.
C12_AsStated ==
    \A c \in Accounts, m \in MarketIds, idx \in OptionIndexes \cup {5},
       amt \in Amounts :
        LET out == place_bet(c, m, idx, amt)
            mi == get_market(m)
        IN  /\ Succeeds(out) <=>
                  /\ mi # 0
                  /\ markets[mi].status = "Open"
                  /\ idx < Len(markets[mi].options)
            /\ (mi # 0 /\ idx >= Len(markets[mi].options)) =>
                  /\ Fails(out)
                  /\ out.ledger = Ledger

\* C13: create_market succeeds exactly when a market creator agent is
\* configured, the caller is that agent and the options list has between 2
\* and 10 entries; a call that does not succeed stores no market and leaves
\* next_market_id as it was; a call that succeeds appends one market, which
\* is Open, has no winning_option and has shares_per_option all zero.
C13_CreateMarket ==
    \A c \in Accounts, n \in AnyOptionCounts, d \in Deadlines :
        LET out == create_market(c, n, d) IN
        /\ Succeeds(out) <=>
              /\ config.market_creator_agent # None
              /\ c = config.market_creator_agent[1]
              /\ 2 <= n
              /\ n <= 10
        /\ ~ Succeeds(out) =>
              /\ out.ledger.markets = markets
              /\ out.ledger.next_market_id = next_market_id
        /\ Succeeds(out) =>
              /\ Len(out.ledger.markets) = Len(markets) + 1
              /\ SubSeq(out.ledger.markets, 1, Len(markets)) = markets
              /\ LET market == out.ledger.markets[Len(markets) + 1] IN
                    /\ market.status = "Open"
                    /\ market.winning_option = None
                    /\ Len(market.shares_per_option) = n
                    /\ \A i \in 1 .. n : market.shares_per_option[i] = 0

C13_Witness ==
    /\ Len(markets) = 1
    /\ markets[1].status = "Open"
    /\ nbets = 0
    /\ \E c \in Accounts, d \in Deadlines :
          /\ create_market(c, 11, d).result = "Too many options"
          /\ create_market(c, 1, d).result = "Market must have at least 2 options"
          /\ Succeeds(create_market(c, 10, d))

\* the i-th market created holds id i - 1, every stored id is below
\* next_market_id, and no two position records share a key
IdsInOrder ==
    /\ \A i \in 1 .. Len(markets) : markets[i].id = i - 1
    /\ \A i, j \in 1 .. Len(markets) : markets[i].id = markets[j].id => i = j
    /\ \A i \in 1 .. Len(markets) : markets[i].id < next_market_id
    /\ \A i, j \in 1 .. Len(positions) :
          positions[i].key = positions[j].key => i = j

\* C14: market ids are handed out 0, 1, 2, ... in the order of the
\* successful create_market calls and never reused: after every step the
\* stored markets have pairwise distinct ids, all below next_market_id,
\* there is at most one position record per (market id, account) pair,
\* next_market_id has not gone down and every market stored before the step
\* is still stored, in its place, under its id.
C14_IdsNeverReused ==
    [][ /\ IdsInOrder'
        /\ next_market_id' >= next_market_id
        /\ Len(markets') >= Len(markets)
        /\ \A i \in 1 .. Len(markets) : markets'[i].id = markets[i].id
      ]_vars

C14_Witness ==
    /\ Len(markets) = 2
    /\ next_market_id = 2
    /\ Len(positions) = 2
    /\ \E i \in 1 .. Len(positions) :
          /\ positions[i].key[1] = 1
          /\ \E s \in 1 .. Len(positions[i].shares) : positions[i].shares[s] = 1
    /\ \E i \in 1 .. Len(markets) : markets[i].status = "Resolved"

\* the call leaves the configuration as it was
KeepsConfig(out) == out.ledger.config = config

\* C15: the configuration changes only through set_market_creator and
\* set_resolver_oracle called by the admin: either of them called by any
\* other account returns an error and leaves config as it was, called by
\* the admin it writes the one agent field and leaves the admin and the
\* other agent as they were, no other operation writes config, and the
\* admin is the account given to the constructor.
C15_ConfigByAdminOnly ==
    /\ config.admin = Admin
    /\ \A c \in Accounts \ {config.admin}, a \in Accounts :
          /\ Fails(set_market_creator(c, a)) /\ KeepsConfig(set_market_creator(c, a))
          /\ Fails(set_resolver_oracle(c, a)) /\ KeepsConfig(set_resolver_oracle(c, a))
    /\ \A a \in Accounts :
          /\ set_market_creator(config.admin, a).ledger.config =
                [config EXCEPT !.market_creator_agent = Some(a)]
          /\ set_resolver_oracle(config.admin, a).ledger.config =
                [config EXCEPT !.resolver_oracle_agent = Some(a)]
    /\ \A c \in Accounts, n \in OptionCounts, d \in Deadlines :
          KeepsConfig(create_market(c, n, d))
    /\ \A c \in Accounts, m \in MarketIds, i \in OptionIndexes, a \in Amounts :
          KeepsConfig(place_bet(c, m, i, a))
    /\ \A m \in MarketIds, b \in Blocks : KeepsConfig(request_resolution(m, b))
    /\ \A p \in Payloads : KeepsConfig(on_resolution_complete(p))
    /\ \A c \in Accounts, m \in MarketIds : KeepsConfig(claim_winnings(c, m))

C15_Witness ==
    /\ config.market_creator_agent = Some("bob")
    /\ config.resolver_oracle_agent = Some("bob")
    /\ positions # << >>
    /\ set_market_creator("bob", "bob").result = "Only admin can set market creator"
    /\ set_resolver_oracle("charlie", "charlie").result = "Only admin can set resolver oracle"

C17_AsStated ==
    \A i \in 1 .. Len(markets) :
        LET market == markets[i]
            pool == SeqSum(market.shares_per_option)
            out == get_implied_odds(market.id)
        IN  pool > 0 =>
              /\ Succeeds(out)
              /\ out.value = Some([k \in 1 .. Len(market.options) |->
                                (market.shares_per_option[k] * 100) \div pool])

\* C18: for every stored market, in every reachable state, get_implied_odds
\* returns percentages that sum to 100.
C18_AsStated ==
    \A i \in 1 .. Len(markets) :
        LET out == get_implied_odds(markets[i].id) IN
        /\ Succeeds(out)
        /\ out.value # None
        /\ SeqSum(out.value[1]) = 100

\* C19: the payout is computed with headroom: whenever a caller holds
\* winning shares of a resolved market whose winning pool and total pool
\* are within the Balance range (caller's shares <= winning pool <= total
\* pool), claim_winnings succeeds and returns the exact
\* floor(caller's shares * total pool / winning pool), also when that
\* product is beyond the largest Balance.
C19_AsStated ==
    \A a \in Accounts, m \in StoredIds :
        LET market == markets[get_market(m)]
            pool == SeqSum(market.shares_per_option)
            out == claim_winnings(a, m)
        IN  ( /\ market.status = "Resolved"
              /\ position_index(<< m, a >>) # 0
              /\ winning_shares_of(a, market) > 0
              /\ winning_shares_of(a, market)
                    <= market.shares_per_option[market.winning_option[1] + 1]
              /\ market.shares_per_option[market.winning_option[1] + 1] <= pool
              /\ ~ Overflows(pool) )
            => /\ Succeeds(out)
               /\ out.value =
                     (winning_shares_of(a, market) * pool)
                        \div market.shares_per_option[market.winning_option[1] + 1]

\* C20: after every step, every stored market has as many share slots as
\* options, and a market stored before the step still has the number of
\* options and of share slots it had.
C20_LengthsFixed ==
    [][ \A i \in 1 .. Len(markets') :
          /\ Len(markets'[i].shares_per_option) = Len(markets'[i].options)
          /\ i <= Len(markets) =>
                /\ Len(markets'[i].options) = Len(markets[i].options)
                /\ Len(markets'[i].shares_per_option) =
                      Len(markets[i].shares_per_option)
      ]_vars

C20_Witness ==
    \E i \in 1 .. Len(markets) :
        /\ Len(markets[i].options) = 10
        /\ Len(markets[i].shares_per_option) = 10
        /\ markets[i].shares_per_option[10] > 0
        /\ markets[i].status = "Resolved"

\* C21: for every stored position (m, account) and every option i, the
\* position's shares[i] is at most the sum of the amounts the account has
\* staked on option i of market m in successful place_bet calls, and, the
\* position being still stored, equal to it.
C21_AsStated ==
    \A p \in 1 .. Len(positions) :
        LET key == positions[p].key
            shares == positions[p].shares
        IN  \A i \in 0 .. (Len(shares) - 1) :
              /\ shares[i + 1] <= StakedUnder(<< key[1], key[2], i >>)
              /\ shares[i + 1] = StakedUnder(<< key[1], key[2], i >>)

\* C22: for every stored market, total_pool() is the sum of its
\* shares_per_option, which is the sum of the amounts of all successful
\* place_bet calls on it, and no call of another operation changes a
\* market's shares.
C22_AsStated ==
    /\ \A i \in 1 .. Len(markets) :
          /\ total_pool(markets[i]) = SeqSum(markets[i].shares_per_option)
          /\ SeqSum(markets[i].shares_per_option) = staked[markets[i].id]
    /\ \A c \in Accounts, n \in OptionCounts, d \in Deadlines,
          i \in 1 .. Len(markets) :
          create_market(c, n, d).ledger.markets[i].shares_per_option
              = markets[i].shares_per_option
    /\ \A m \in MarketIds, b \in Blocks, i \in 1 .. Len(markets) :
          request_resolution(m, b).ledger.markets[i].shares_per_option
              = markets[i].shares_per_option
    /\ \A p \in Payloads, i \in 1 .. Len(markets) :
          on_resolution_complete(p).ledger.markets[i].shares_per_option
              = markets[i].shares_per_option
    /\ \A c \in Accounts, m \in MarketIds, i \in 1 .. Len(markets) :
          claim_winnings(c, m).ledger.markets[i].shares_per_option
              = markets[i].shares_per_option
    /\ \A c \in Accounts, a \in AgentIds :
          /\ set_market_creator(c, a).ledger.markets = markets
          /\ set_resolver_oracle(c, a).ledger.markets = markets

\* C23: a successful claim_winnings(caller, m) deletes the caller's whole
\* position in m, shares of losing options included, so that get_position
\* then returns the default empty position, and changes nothing else: the
\* markets (shares_per_option, status, winning_option), every other
\* position and the rest of the ledger are as before.
C23_ClaimDeletesPosition ==
    \A c \in Accounts, m \in MarketIds :
        LET out == claim_winnings(c, m) IN
        Succeeds(out) =>
          /\ position_in(out.ledger, << m, c >>) = << >>
          /\ \A i \in 1 .. Len(out.ledger.positions) :
                out.ledger.positions[i].key # << m, c >>
          /\ Len(out.ledger.positions) = Len(positions) - 1
          /\ \A k \in (MarketIds \X Accounts) \ {<< m, c >>} :
                position_in(out.ledger, k) = position_in(Ledger, k)
          /\ out.ledger.markets = markets
          /\ out.ledger.config = config
          /\ out.ledger.next_market_id = next_market_id
          /\ out.ledger.pending_resolutions = pending_resolutions

C23_Witness ==
    \E c \in Accounts, m \in StoredIds :
        LET market == markets[get_market(m)]
            shares == get_position(m, c)
        IN  /\ Succeeds(claim_winnings(c, m))
            /\ \E i \in 0 .. (Len(shares) - 1) :
                  i # market.winning_option[1] /\ shares[i + 1] > 0
            /\ Len(positions) > 1
            /\ claimed # {}

\* C24: place_bet with amount 0 on an Open market with a valid option index
\* succeeds and is a no-op: the ledger after the call is the ledger before
\* it, no share slot changed and no position record created or altered.
C24_AsStated ==
    \A c \in Accounts, m \in StoredIds, idx \in OptionIndexes :
        LET market == markets[get_market(m)]
            out == place_bet(c, m, idx, 0)
        IN  (market.status = "Open" /\ idx < Len(market.options)) =>
              /\ Succeeds(out)
              /\ out.ledger = Ledger

\* the status a call leaves on the market stored at index i
StatusAfter(out, i) == out.ledger.markets[i].status

\* C25: a market in PendingResolution leaves that status only through a
\* successful on_resolution_complete naming it: for every such market a
\* callback with success = false, a callback that does not decode or names
\* another market, a repeated request_resolution, a bet, a claim and every
\* other call leave it PendingResolution, request_resolution on it fails,
\* and a callback that does change its status is a successful one for its
\* id with the success flag set.
C25_PendingUntilCallback ==
    \A i \in 1 .. Len(markets) :
        markets[i].status = "PendingResolution" =>
          /\ \A p \in Payloads :
                LET out == on_resolution_complete(p) IN
                StatusAfter(out, i) # "PendingResolution" =>
                  /\ Succeeds(out)
                  /\ p.success
                  /\ decode_result(p.output).ok
                  /\ decode_result(p.output).market_id = markets[i].id
          /\ \A m \in MarketIds, b \in Blocks :
                /\ StatusAfter(request_resolution(m, b), i) = "PendingResolution"
                /\ m = markets[i].id => Fails(request_resolution(m, b))
          /\ \A c \in Accounts, m \in MarketIds, idx \in OptionIndexes,
                a \in Amounts :
                StatusAfter(place_bet(c, m, idx, a), i) = "PendingResolution"
          /\ \A c \in Accounts, m \in MarketIds :
                StatusAfter(claim_winnings(c, m), i) = "PendingResolution"
          /\ \A c \in Accounts, n \in OptionCounts, d \in Deadlines :
                StatusAfter(create_market(c, n, d), i) = "PendingResolution"
          /\ \A c \in Accounts, a \in AgentIds :
                /\ StatusAfter(set_market_creator(c, a), i) = "PendingResolution"
                /\ StatusAfter(set_resolver_oracle(c, a), i) = "PendingResolution"

C25_Witness ==
    \E i \in 1 .. Len(markets) :
        /\ markets[i].status = "PendingResolution"
        /\ staked[markets[i].id] > 0
        /\ \E p \in Payloads :
              /\ ~ p.success
              /\ decode_result(p.output).ok
              /\ decode_result(p.output).market_id = markets[i].id
              /\ on_resolution_complete(p).result = "Oracle agent failed to resolve"
        /\ \E b \in Blocks :
              request_resolution(markets[i].id, b).result = "Market is not open"

\* C26: a market is stored with the creator agent configured at the moment
\* of its creation as its creator, and no later step changes the creator of
\* a stored market, a set_market_creator installing another agent
\* included.
C26_CreatorFixed ==
    [][ \A i \in 1 .. Len(markets') :
          IF i <= Len(markets)
          THEN markets'[i].creator = markets[i].creator
          ELSE /\ config.market_creator_agent # None
               /\ markets'[i].creator = config.market_creator_agent[1]
      ]_vars

C26_Witness ==
    /\ Len(markets) = 2
    /\ markets[1].creator = "bob"
    /\ markets[2].creator = "alice"
    /\ config.market_creator_agent = Some("bob")
    /\ markets[1].status = "Resolved"

\* the fields of a callback that settlement is said not to read: the
\* payload's request_id and run_id, the result's confidence_pct (any u8) and
\* evidence_summary (any String)
InfoFields ==
    [request_id : {1, 2}, run_id : {1, 2}, confidence_pct : {0, 95, 255},
     evidence_summary : {<< >>, << 111, 107 >>}]

\* the callback payload reporting `winning_option` for `market_id`
InfoPayload(market_id, winning_option, success, info) ==
    [request_id |-> info.request_id,
     run_id |-> info.run_id,
     success |-> success,
     output |-> encode_result(
                   [market_id |-> market_id,
                    winning_option |-> winning_option,
                    confidence_pct |-> info.confidence_pct,
                    evidence_summary |-> info.evidence_summary])]

\* C27: two on_resolution_complete calls on the same ledger whose payloads
\* agree on success, market_id and winning_option and differ in request_id,
\* run_id, confidence_pct or evidence_summary return the same result and
\* leave the same ledger: over all values of those fields the call has one
\* outcome.
C27_InfoFieldsIgnored ==
    \A m \in ManyMarketIds, w \in OptionIndexes, s \in BOOLEAN :
        Cardinality({on_resolution_complete(InfoPayload(m, w, s, q)) :
                        q \in InfoFields}) = 1

C27_Witness ==
    \E i \in 1 .. Len(markets), q1 \in InfoFields, q2 \in InfoFields :
        /\ markets[i].status = "PendingResolution"
        /\ nbets > 0
        /\ q1.confidence_pct = 0
        /\ q2.confidence_pct = 255
        /\ q1.evidence_summary # q2.evidence_summary
        /\ q1.request_id # q2.request_id
        /\ Succeeds(on_resolution_complete(InfoPayload(markets[i].id, 1, TRUE, q1)))
        /\ Succeeds(on_resolution_complete(InfoPayload(markets[i].id, 1, TRUE, q2)))

\* C28: once request_resolution has succeeded for a market (its status is
\* no longer Open), every place_bet on it fails and no step changes its
\* shares_per_option, so every claim reads the pool as it was when
\* resolution was requested.
C28_PoolFrozen ==
    [][ \A i \in 1 .. Len(markets) :
          markets[i].status # "Open" =>
            /\ markets'[i].shares_per_option = markets[i].shares_per_option
            /\ \A c \in ManyAccounts, idx \in ManyOptionIndexes,
                  a \in ManyAmounts :
                  Fails(place_bet(c, markets[i].id, idx, a))
      ]_vars

C28_Witness ==
    \E i, j \in 1 .. Len(markets) :
        /\ markets[i].status = "Resolved"
        /\ staked[markets[i].id] > 0
        /\ << markets[i].id, "bob" >> \in claimed
        /\ markets[j].status = "Open"
        /\ staked[markets[j].id] > 0

\* C29: once a market's winning_option is set no step changes it, and every
\* on_resolution_complete whose payload names that market, whatever winner
\* it reports, returns an error and leaves the ledger as it was.
C29_WinnerFixed ==
    [][ \A i \in 1 .. Len(markets) :
          markets[i].winning_option # None =>
            /\ markets'[i].winning_option = markets[i].winning_option
            /\ \A p \in ManyPayloads :
                  ( /\ decode_result(p.output).ok
                    /\ decode_result(p.output).market_id = markets[i].id )
                  => /\ Fails(on_resolution_complete(p))
                     /\ on_resolution_complete(p).ledger = Ledger
      ]_vars

C29_Witness ==
    \E i \in 1 .. Len(markets) :
        /\ markets[i].winning_option = Some(1)
        /\ nbets > 0
        /\ \E p \in ManyPayloads :
              /\ p.success
              /\ decode_result(p.output).ok
              /\ decode_result(p.output).market_id = markets[i].id
              /\ decode_result(p.output).winning_option = 0
              /\ on_resolution_complete(p).result = "Market is not pending resolution"

\* C30: claims on a resolved market commute: a successful claim by one
\* account leaves, for every other account and every market, the result of
\* that account's claim_winnings (success or the error) and the payout it
\* returns as they were before; so neither depends on the order of the
\* claims or on how many accounts have claimed already.
C30_ClaimsCommute ==
    [][ \/ claimed' = claimed
        \/ \A a \in Accounts, m \in MarketIds :
              << m, a >> \notin claimed' =>
                /\ claim_winnings(a, m)'.result = claim_winnings(a, m).result
                /\ claim_winnings(a, m)'.value = claim_winnings(a, m).value
      ]_vars

C30_Witness ==
    \E a, b \in Accounts, m \in StoredIds :
        /\ a # b
        /\ << m, b >> \in claimed
        /\ << m, a >> \notin claimed
        /\ Succeeds(claim_winnings(a, m))
        /\ claim_winnings(a, m).value > 0
        /\ paid[m] > 0

\* the shares of option `option_index` held in market `market_id` by the
\* first n stored positions
RECURSIVE HeldIn(_, _, _)
HeldIn(market_id, option_index, n) ==
    IF n = 0 THEN 0
    ELSE HeldIn(market_id, option_index, n - 1)
            + (IF positions[n].key[1] = market_id
               THEN share_at(positions[n].shares, option_index)
               ELSE 0)

\* C31: for every stored market m and option i, the shares[i] of all stored
\* positions in m add up to at most m.shares_per_option[i], and to exactly
\* that as long as no claim_winnings has succeeded on m.
C31_AsStated ==
    \A k \in 1 .. Len(markets) :
        \A i \in 0 .. (Len(markets[k].options) - 1) :
            LET held == HeldIn(markets[k].id, i, Len(positions))
                slot == markets[k].shares_per_option[i + 1]
            IN  /\ held <= slot
                /\ (\A a \in Accounts : << markets[k].id, a >> \notin claimed)
                      => held = slot

\* what a call addressed to market_id leaves alone: the list of markets keeps
\* its length, every record of another market is as it was, and so are the
\* positions of the other markets, in their order
ElsewhereKept(out, market_id) ==
    LET Elsewhere(p) == p.key[1] # market_id IN
    /\ Len(out.ledger.markets) = Len(markets)
    /\ \A k \in 1 .. Len(markets) :
          markets[k].id # market_id => out.ledger.markets[k] = markets[k]
    /\ SelectSeq(out.ledger.positions, Elsewhere) = SelectSeq(positions, Elsewhere)

\* C32: place_bet, request_resolution, on_resolution_complete and
\* claim_winnings addressed to market m leave every other market's record and
\* every position of another market unchanged, and create_market leaves all
\* existing markets and all positions unchanged.
C32_MarketsIsolated ==
    /\ \A c \in ManyAccounts, m \in ManyMarketIds :
          /\ \A i \in ManyOptionIndexes, a \in ManyAmounts :
                ElsewhereKept(place_bet(c, m, i, a), m)
          /\ ElsewhereKept(claim_winnings(c, m), m)
    /\ \A m \in ManyMarketIds, b \in Blocks :
          ElsewhereKept(request_resolution(m, b), m)
    /\ \A r \in ManyResults, s \in BOOLEAN :
          ElsewhereKept(
              on_resolution_complete([request_id |-> 1, run_id |-> 1,
                                      success |-> s, output |-> encode_result(r)]),
              r.market_id)
    /\ \A c \in ManyAccounts, n \in ManyOptionCounts, d \in Deadlines :
          LET out == create_market(c, n, d) IN
          /\ SubSeq(out.ledger.markets, 1, Len(markets)) = markets
          /\ out.ledger.positions = positions

\* two markets both hold positions, one is Resolved and a claim on it pays
C32_Witness ==
    \E a, b \in ManyAccounts, m, o \in StoredIds :
        /\ m # o
        /\ position_index(<< m, a >>) # 0
        /\ position_index(<< o, b >>) # 0
        /\ markets[get_market(m)].status = "Resolved"
        /\ Succeeds(claim_winnings(a, m))

\* C33: the wait for the oracle is carried by the persisted status alone: in
\* every reachable state, whatever was interleaved since the request, a
\* market that is PendingResolution accepts a callback with success == true,
\* its market_id and a winning_option below its number of options, and that
\* callback makes it Resolved with that winner.
C33_PendingAcceptsCallback ==
    \A k \in 1 .. Len(markets) :
        markets[k].status = "PendingResolution" =>
            \A w \in 0 .. (Len(markets[k].options) - 1), q \in InfoFields :
                LET out == on_resolution_complete(
                               InfoPayload(markets[k].id, w, TRUE, q))
                IN  /\ Succeeds(out)
                    /\ out.ledger.markets[k].status = "Resolved"
                    /\ out.ledger.markets[k].winning_option = Some(w)

\* a market waits for its callback while another market, requested as well,
\* has been resolved and paid out
C33_Witness ==
    \E m, o \in StoredIds, a \in ManyAccounts :
        /\ m # o
        /\ markets[get_market(m)].status = "PendingResolution"
        /\ markets[get_market(o)].status = "Resolved"
        /\ << o, a >> \in claimed
        /\ Succeeds(on_resolution_complete(
               InfoPayload(m, 0, TRUE,
                           [request_id |-> 2, run_id |-> 2, confidence_pct |-> 0,
                            evidence_summary |-> << >>])))

\* C34: no successful place_bet decreases the shares_per_option slot it adds
\* to, the caller's position slot or the market's total_pool: an addition
\* beyond the largest Balance does not wrap around.  (Where the build checks
\* overflow and the slots add up beyond the largest Balance, total_pool
\* panics and has no value to compare.)
C34_AsStated ==
    \A c \in Accounts, m \in MarketIds, idx \in OptionIndexes, amt \in Amounts :
        LET out == place_bet(c, m, idx, amt)
            mi == get_market(m)
        IN  Succeeds(out) =>
              LET before == markets[mi]
                  after == out.ledger.markets[mi]
              IN  /\ after.shares_per_option[idx + 1] >= before.shares_per_option[idx + 1]
                  /\ share_at(position_in(out.ledger, << m, c >>), idx)
                        >= share_at(position_in(Ledger, << m, c >>), idx)
                  /\ \/ overflow_checks /\ Overflows(SeqSum(after.shares_per_option))
                     \/ total_pool(after) >= total_pool(before)

\* C35: every stored position belongs to a stored market and has one share
\* slot per option of that market, so the extension loop of place_bet finds
\* nothing to add, and claim_winnings answers "No winning shares" only to a
\* position whose slot at the winning index holds 0, never because the index
\* lies past the end of the position.
C35_PositionsFullLength ==
    /\ \A p \in 1 .. Len(positions) :
          LET mi == get_market(positions[p].key[1]) IN
          /\ mi # 0
          /\ Len(positions[p].shares) = Len(markets[mi].options)
          /\ extend_shares(positions[p].shares, Len(markets[mi].options))
                = positions[p].shares
    /\ \A c \in ManyAccounts, m \in ManyMarketIds :
          claim_winnings(c, m).result = "No winning shares" =>
              LET shares == position_in(Ledger, << m, c >>)
                  winning_idx == markets[get_market(m)].winning_option[1]
              IN  /\ winning_idx < Len(shares)
                  /\ shares[winning_idx + 1] = 0

\* a position of a three-option market that took two bets, the second one
\* through the extension loop, and is refused for holding nothing on the
\* winner
C35_Witness ==
    \E c \in ManyAccounts, m \in StoredIds :
        /\ position_in(Ledger, << m, c >>) = << 1, 0, 1 >>
        /\ markets[get_market(m)].status = "Resolved"
        /\ markets[get_market(m)].winning_option = Some(1)
        /\ claim_winnings(c, m).result = "No winning shares"

====
